---- MODULE Spec2Model ----
(***************************************************************************)
(* Command registry of src/src/commands/commands.c: the static table       *)
(* commands[], the lookups by name and by key, the guarded execution and   *)
(* the accelerator bindings.                                               *)
(*                                                                         *)
(* Tooltips of src/src/ui/tooltips.cpp: the TooltipManager with its map of *)
(* tips, its target, its timer and its popup, the placement search of      *)
(* onTick, and the TipWindow's own message handling and preferred size.    *)
(*                                                                         *)
(* Pointers are modelled by values of one type each: a Command* into the   *)
(* table is its 1-based position (NULL is 0), a const char* is a string    *)
(* (the null pointer is NULL_STR), a JAccel is a record whose field        *)
(* allocated tells a live object from NULL.                                *)
(***************************************************************************)
EXTENDS Integers, Sequences, FiniteSets, TLC

(* ---------------------------------------------------------------- bounds *)

\* Number of entries of commands[] kept in the model (the source has 88).
NumCommands == 3

\* Key combinations held by all accelerators together before add_key stops.
MaxKeyCombos == 3

\* Children of a TipWindow whose preferred size is asked.
MaxChildren == 2

(* ------------------------------------------------------------- constants *)

\* The null Command*: the sentinel that ends commands[].
NULL == 0

\* A null const char*.
NULL_STR == "(null)"

\* A null function pointer in a Command (execute, enabled, checked).
NULL_FN == "NULL"

\* A null JAccel, and the object jaccel_new() returns.
NULL_ACCEL == [allocated |-> FALSE, key_combos |-> <<>>]
jaccel_new == [allocated |-> TRUE, key_combos |-> <<>>]

\* The names of the first entries of commands[], in declaration order.
CommandNames ==
  <<"about", "advanced_mode", "autocrop_sprite", "brush_tool",
    "cel_properties", "change_image_type">>

(* ------------------------------------------------------------ input sets *)

\* Names handed to command_get_by_name: every registered name, the null
\* pointer, the empty string and strings next to registered names.
NameInputs ==
  {CommandNames[i] : i \in 1..NumCommands}
    \cup {NULL_STR, "", "abou", "about_", "undo"}

\* Arguments handed to the callables of a command.
Arguments == {NULL_STR, "arg"}

\* Behaviours of an execute callable: it returns, or it leaves by a
\* non-local exit (longjmp, exit) and never returns to its caller.
ExecuteCallables == {"returns", "nonlocal_exit"}

\* Behaviours of an enabled callable, as functions of its argument.
EnabledCallables == {"always", "never", "with_argument"}

\* Behaviours of a checked callable.
CheckedCallables == {"checked", "unchecked"}

\* The Command* values handed to command_is_enabled, command_is_checked and
\* command_execute: the null pointer, or a Command with its callables.
NULL_COMMAND ==
  [valid |-> FALSE, execute |-> NULL_FN, enabled |-> NULL_FN,
   checked |-> NULL_FN]
CommandInputs ==
  {NULL_COMMAND} \cup
  [valid : {TRUE},
   execute : ExecuteCallables \cup {NULL_FN},
   enabled : EnabledCallables \cup {NULL_FN},
   checked : CheckedCallables \cup {NULL_FN}]

\* Key chord texts handed to command_add_key, as "+"-separated tokens.
ChordStrings == {<<"A">>, <<"Ctrl", "A">>, <<"F1">>}

\* Key messages: shifts, ascii, scancode.
KeyMessages ==
  [shifts : {{}, {"Ctrl"}},
   key : {[ascii |-> "a", scancode |-> "KEY_A"],
          [ascii |-> "b", scancode |-> "KEY_B"],
          [ascii |-> "NUL", scancode |-> "KEY_F1"]}]

(* ----------------------------------------------------------------- state *)

VARIABLES
  commands,   \* the table: commands[i] = [name, accel]
  call,       \* the last operation called, with its arguments
  ret,        \* what it returned
  events,     \* the calls it made to its collaborators, in order
  pc,         \* "returned", or "unwound" when control left by non-local exit
  history,    \* what the calls so far did to the key bindings
  m_tips,     \* TooltipManager: widget -> TipInfo, or no entry
  m_target,   \* TooltipManager: the widget hovered and a copy of its TipInfo
  m_timer,    \* TooltipManager: position of its Timer in timers, or NULL
  m_tipWindow,\* TooltipManager: the TipWindow it owns, or NULL_WINDOW
  timers,     \* the Timer objects alive, each running or stopped
  screen,     \* the popup windows that are open, in opening order
  env,        \* display size, widget bounds, popup size, mouse, guiscale
  entered,    \* a registered widget was entered and nothing dismissed since
  tip         \* a TipWindow on its own: text, border, children, open

cmdVars == <<commands, ret, pc, history>>
mgrVars ==
  <<m_tips, m_target, m_timer, m_tipWindow, timers, screen, env, entered>>
tipVars == <<mgrVars, tip>>
vars == <<commands, call, ret, events, pc, history, mgrVars, tip>>

(* ------------------------------------------------------- the collaborators *)

\* strcmp: zero exactly when the two strings have the same characters.
strcmp(s1, s2) == IF s1 = s2 THEN 0 ELSE 1

\* usprintf(buf, "<%s>", string): the text between angle brackets.
usprintf(string) == <<"<">> \o string \o <<">">>

\* An enabled callable applied to its argument.
CallEnabled(enabled, argument) ==
  CASE enabled = "always" -> TRUE
    [] enabled = "never" -> FALSE
    [] enabled = "with_argument" -> argument # NULL_STR

\* A checked callable applied to its argument.
CallChecked(checked, argument) == checked = "checked"

\* The modifier flags an accelerator looks at.
ShiftFlags == {"Shift", "Ctrl", "Alt"}

\* One word of a chord text: modifier tokens set the shifts, a key token
\* sets the ascii code and the scancode.
RECURSIVE process_one_word(_, _)
process_one_word(word, key) ==
  IF word = <<>> THEN key
  ELSE LET tok == Head(word)
           next ==
             CASE tok \in ShiftFlags ->
                    [key EXCEPT !.shifts = key.shifts \cup {tok}]
               [] tok = "A" ->
                    [key EXCEPT !.ascii = "a", !.scancode = "KEY_A"]
               [] tok = "B" ->
                    [key EXCEPT !.ascii = "b", !.scancode = "KEY_B"]
               [] tok = "F1" ->
                    [key EXCEPT !.ascii = "NUL", !.scancode = "KEY_F1"]
               [] OTHER -> key
       IN process_one_word(Tail(word), next)

\* The position of the ">" that closes the word starting at s, or one past
\* the end of the text.
RECURSIVE WordEnd(_, _)
WordEnd(buf, s) ==
  IF s > Len(buf) \/ buf[s] = ">" THEN s ELSE WordEnd(buf, s + 1)

\* jaccel_add_keys_from_string: every "<...>" word of the text is parsed and
\* its key combination is appended to the accelerator.
RECURSIVE jaccel_add_keys_from(_, _, _)
jaccel_add_keys_from(accel, buf, s) ==
  IF s > Len(buf) THEN accel
  ELSE IF buf[s] = "<"
  THEN LET e == WordEnd(buf, s + 1)
           key == process_one_word(
                    SubSeq(buf, s + 1, e - 1),
                    [shifts |-> {}, ascii |-> "NUL", scancode |-> "KEY_NONE"])
       IN jaccel_add_keys_from(
            [accel EXCEPT !.key_combos = Append(@, key)], buf, e + 1)
  ELSE jaccel_add_keys_from(accel, buf, s + 1)

jaccel_add_keys_from_string(accel, buf) == jaccel_add_keys_from(accel, buf, 1)

\* jaccel_check: some key combination of the accelerator has the message's
\* modifiers and its scancode or its ascii code.
jaccel_check(accel, shifts, ascii, scancode) ==
  \E k \in 1..Len(accel.key_combos) :
    LET key == accel.key_combos[k]
    IN /\ \/ key.scancode # "KEY_NONE" /\ key.scancode = scancode
          \/ key.ascii # "NUL" /\ key.ascii = ascii
       /\ key.shifts = shifts \cap ShiftFlags

(* ---------------------------------------------------------- the operations *)

\* for (cmd=commands; *cmd; cmd++) if (strcmp((*cmd)->name, name) == 0) ...
RECURSIVE ScanByName(_, _)
ScanByName(cmd, name) ==
  IF cmd > Len(commands) THEN NULL
  ELSE IF strcmp(commands[cmd].name, name) = 0 THEN cmd
  ELSE ScanByName(cmd + 1, name)

\* Variant: the result of strcmp is tested as if it were a truth value.
RECURSIVE ScanByNameUnequal(_, _)
ScanByNameUnequal(cmd, name) ==
  IF cmd > Len(commands) THEN NULL
  ELSE IF strcmp(commands[cmd].name, name) # 0 THEN cmd
  ELSE ScanByNameUnequal(cmd + 1, name)

command_get_by_name_unequal(name) ==
  IF name = NULL_STR THEN NULL ELSE ScanByNameUnequal(1, name)

\* Variant: only the first strlen(name) characters are compared.
strncmp_to_name(s1, s2) ==
  IF s1 = s2 \/ s2 = "" \/ (s2 = "abou" /\ s1 \in {"about", "about_"})
  THEN 0 ELSE 1

RECURSIVE ScanByNamePrefix(_, _)
ScanByNamePrefix(cmd, name) ==
  IF cmd > Len(commands) THEN NULL
  ELSE IF strncmp_to_name(commands[cmd].name, name) = 0 THEN cmd
  ELSE ScanByNamePrefix(cmd + 1, name)

command_get_by_name_prefix(name) ==
  IF name = NULL_STR THEN NULL ELSE ScanByNamePrefix(1, name)

command_get_by_name(name) ==
  IF name = NULL_STR THEN NULL ELSE ScanByName(1, name)

\* command is the Command pointed to, one entry of the table.
command_is_key_pressed(command, msg) ==
  IF command.accel.allocated
  THEN jaccel_check(command.accel,
                    msg.shifts, msg.key.ascii, msg.key.scancode)
  ELSE FALSE

\* for (cmd=commands; *cmd; cmd++) if (command_is_key_pressed(*cmd, msg)) ...
RECURSIVE ScanByKey(_, _)
ScanByKey(cmd, msg) ==
  IF cmd > Len(commands) THEN NULL
  ELSE IF command_is_key_pressed(commands[cmd], msg) THEN cmd
  ELSE ScanByKey(cmd + 1, msg)

\* Variant: the scan does not stop at the first match.
RECURSIVE ScanByKeyLast(_, _, _)
ScanByKeyLast(cmd, msg, found) ==
  IF cmd > Len(commands) THEN found
  ELSE IF command_is_key_pressed(commands[cmd], msg)
  THEN ScanByKeyLast(cmd + 1, msg, cmd)
  ELSE ScanByKeyLast(cmd + 1, msg, found)

command_get_by_key_last(msg) == ScanByKeyLast(1, msg, NULL)

command_get_by_key(msg) == ScanByKey(1, msg)

\* Variant: the default of command_is_checked, false, is returned when
\* there is no callable to ask.
command_is_enabled_default_false(command, argument) ==
  IF command.valid /\ command.enabled # NULL_FN
  THEN [ret |-> CallEnabled(command.enabled, argument),
        events |-> <<[fn |-> "enabled", argument |-> argument]>>]
  ELSE [ret |-> FALSE, events |-> <<>>]

\* The value returned, and the call made to the enabled callable if any.
command_is_enabled(command, argument) ==
  IF command.valid /\ command.enabled # NULL_FN
  THEN [ret |-> CallEnabled(command.enabled, argument),
        events |-> <<[fn |-> "enabled", argument |-> argument]>>]
  ELSE [ret |-> TRUE, events |-> <<>>]

\* The value returned, and the call made to the checked callable if any.
command_is_checked(command, argument) ==
  IF command.valid /\ command.checked # NULL_FN
  THEN [ret |-> CallChecked(command.checked, argument),
        events |-> <<[fn |-> "checked", argument |-> argument]>>]
  ELSE [ret |-> FALSE, events |-> <<>>]

\* Variant: the execute callable runs without command_is_enabled being
\* asked.
command_execute_unguarded(command, argument) ==
  LET open == <<[fn |-> "console_open"]>>
      close == <<[fn |-> "console_close"]>>
      exec == <<[fn |-> "execute", argument |-> argument]>>
  IN IF command.valid /\ command.execute # NULL_FN
     THEN IF command.execute = "nonlocal_exit"
          THEN [events |-> open \o exec, pc |-> "unwound"]
          ELSE [events |-> open \o exec \o close, pc |-> "returned"]
     ELSE [events |-> open \o close, pc |-> "returned"]

\* Variant: the console is closed before the execute callable runs.
command_execute_close_first(command, argument) ==
  LET open == <<[fn |-> "console_open"]>>
      close == <<[fn |-> "console_close"]>>
      exec == <<[fn |-> "execute", argument |-> argument]>>
  IN IF command.valid /\ command.execute # NULL_FN
     THEN LET enabled == command_is_enabled(command, argument)
          IN IF enabled.ret
             THEN [events |-> open \o enabled.events \o close \o exec,
                   pc |-> IF command.execute = "nonlocal_exit"
                          THEN "unwound" ELSE "returned"]
             ELSE [events |-> open \o enabled.events \o close,
                   pc |-> "returned"]
     ELSE [events |-> open \o close, pc |-> "returned"]

\* The calls made, in order, and how control left the function.
command_execute(command, argument) ==
  LET open == <<[fn |-> "console_open"]>>
      close == <<[fn |-> "console_close"]>>
      exec == <<[fn |-> "execute", argument |-> argument]>>
  IN IF command.valid /\ command.execute # NULL_FN
     THEN LET enabled == command_is_enabled(command, argument)
          IN IF enabled.ret
             THEN IF command.execute = "nonlocal_exit"
                  THEN [events |-> open \o enabled.events \o exec,
                        pc |-> "unwound"]
                  ELSE [events |-> open \o enabled.events \o exec \o close,
                        pc |-> "returned"]
             ELSE [events |-> open \o enabled.events \o close,
                   pc |-> "returned"]
     ELSE [events |-> open \o close, pc |-> "returned"]

\* Variant: a new accelerator is allocated at every call.
command_add_key_always_new(command, string) ==
  [commands |->
     [commands EXCEPT
        ![command].accel =
          jaccel_add_keys_from_string(jaccel_new, usprintf(string))],
   events |-> IF commands[command].accel.allocated
              THEN <<>> ELSE <<[fn |-> "jaccel_new"]>>]

\* The table after the call, and the allocation made if any.
command_add_key(command, string) ==
  LET absent == ~commands[command].accel.allocated
      accel == IF absent THEN jaccel_new ELSE commands[command].accel
      buf == usprintf(string)
  IN [commands |->
        [commands EXCEPT
           ![command].accel = jaccel_add_keys_from_string(accel, buf)],
      events |-> IF absent THEN <<[fn |-> "jaccel_new"]>> ELSE <<>>]

\* for (cmd=commands; *cmd; cmd++) if ((*cmd)->accel) { free; = NULL }
RECURSIVE ResetFrom(_, _, _)
ResetFrom(cmd, table, freed) ==
  IF cmd > Len(table) THEN [commands |-> table, events |-> freed]
  ELSE IF table[cmd].accel.allocated
  THEN ResetFrom(cmd + 1,
                 [table EXCEPT ![cmd].accel = NULL_ACCEL],
                 Append(freed, [fn |-> "jaccel_free", command |-> cmd]))
  ELSE ResetFrom(cmd + 1, table, freed)

\* Variant: the loop ends at the first command that has no accelerator.
RECURSIVE ResetUntilAbsent(_, _, _)
ResetUntilAbsent(cmd, table, freed) ==
  IF cmd > Len(table) \/ ~table[cmd].accel.allocated
  THEN [commands |-> table, events |-> freed]
  ELSE ResetUntilAbsent(cmd + 1,
                        [table EXCEPT ![cmd].accel = NULL_ACCEL],
                        Append(freed, [fn |-> "jaccel_free", command |-> cmd]))

command_reset_keys_until_absent == ResetUntilAbsent(1, commands, <<>>)

\* Variant: the accelerators are released and the pointers to them kept.
RECURSIVE FreeFrom(_, _)
FreeFrom(cmd, freed) ==
  IF cmd > Len(commands) THEN freed
  ELSE IF commands[cmd].accel.allocated
  THEN FreeFrom(cmd + 1, Append(freed, [fn |-> "jaccel_free", command |-> cmd]))
  ELSE FreeFrom(cmd + 1, freed)

command_reset_keys_dangling ==
  [commands |-> commands, events |-> FreeFrom(1, <<>>)]

\* The table after the call, and the accelerators released.
command_reset_keys == ResetFrom(1, commands, <<>>)

(* ------------------------------------------------- tooltips: geometry *)

\* The arrow alignments onTick's switch knows: a corner or a side.
JI_LEFT == {"LEFT"}
JI_RIGHT == {"RIGHT"}
JI_TOP == {"TOP"}
JI_BOTTOM == {"BOTTOM"}
ValidAligns ==
  {JI_TOP \cup JI_LEFT, JI_TOP \cup JI_RIGHT,
   JI_BOTTOM \cup JI_LEFT, JI_BOTTOM \cup JI_RIGHT,
   JI_TOP, JI_BOTTOM, JI_LEFT, JI_RIGHT}

\* a & b is non-zero; a ^ b.
BitsIn(a, b) == a \cap b # {}
Xor(a, b) == (a \ b) \cup (b \ a)

MAX(a, b) == IF a > b THEN a ELSE b
MIN(a, b) == IF a < b THEN a ELSE b
MID(x, y, z) == MAX(x, MIN(y, z))

\* gfx::Rect::intersects: two non-empty rectangles that overlap.
IsEmpty(rc) == rc.w < 1 \/ rc.h < 1
intersects(a, b) ==
  /\ ~IsEmpty(a)
  /\ ~IsEmpty(b)
  /\ b.x < a.x + a.w
  /\ b.x + b.w > a.x
  /\ b.y < a.y + a.h
  /\ b.y + b.h > a.y

\* TipWindow::onInitTheme: the border of a tip window.
onInitTheme(guiscale) ==
  [l |-> 6 * guiscale, t |-> 6 * guiscale,
   r |-> 6 * guiscale, b |-> 7 * guiscale]

\* The greatest width and the greatest height among the children's
\* preferred sizes, from (0, 0).
RECURSIVE MaxChildSize(_, _)
MaxChildSize(children, maxSize) ==
  IF children = <<>> THEN maxSize
  ELSE MaxChildSize(Tail(children),
                    [w |-> MAX(maxSize.w, Head(children).w),
                     h |-> MAX(maxSize.h, Head(children).h)])

\* A preferred size that looks at the text and the border only.
onPreferredSize_text_only(fit, border_width, children) ==
  [w |-> fit.w + border_width.l + border_width.r,
   h |-> fit.h + border_width.t + border_width.b]

\* TipWindow::onPreferredSize: fit is what fitString returns for the text.
onPreferredSize(fit, border_width, children) ==
  LET resultSize == [w |-> fit.w + border_width.l + border_width.r,
                     h |-> fit.h + border_width.t + border_width.b]
  IN IF children # <<>>
     THEN LET maxSize == MaxChildSize(children, [w |-> 0, h |-> 0])
          IN [w |-> MAX(resultSize.w,
                        border_width.l + maxSize.w + border_width.r),
              h |-> resultSize.h + maxSize.h]
     ELSE resultSize

\* The first scancode of the modifier keys (shift, control, alt, ...).
kKeyFirstModifierScancode == 115

\* PopupWindow::onProcessMessage, for the messages sent here: the window
\* stays as it is.
PopupWindow_onProcessMessage(window, msg) == window

\* A handler that closes the window at any key-down.
TipWindow_onProcessMessage_any_key(window, msg) ==
  IF msg.type = "kKeyDownMessage"
  THEN [window EXCEPT !.open = FALSE]
  ELSE window

\* TipWindow::onProcessMessage
TipWindow_onProcessMessage(window, msg) ==
  PopupWindow_onProcessMessage(
    IF msg.type = "kKeyDownMessage"
       /\ msg.scancode < kKeyFirstModifierScancode
    THEN [window EXCEPT !.open = FALSE]
    ELSE window,
    msg)

\* The switch on arrowAlign in onTick: the origin for the alignment, or the
\* origin as it was when the alignment is none of the eight.
SwitchOrigin(arrowAlign, bounds, w, h, x, y) ==
  CASE arrowAlign = JI_TOP \cup JI_LEFT ->
         [x |-> bounds.x + bounds.w, y |-> bounds.y + bounds.h]
    [] arrowAlign = JI_TOP \cup JI_RIGHT ->
         [x |-> bounds.x - w, y |-> bounds.y + bounds.h]
    [] arrowAlign = JI_BOTTOM \cup JI_LEFT ->
         [x |-> bounds.x + bounds.w, y |-> bounds.y - h]
    [] arrowAlign = JI_BOTTOM \cup JI_RIGHT ->
         [x |-> bounds.x - w, y |-> bounds.y - h]
    [] arrowAlign = JI_TOP ->
         [x |-> bounds.x + (bounds.w \div 2) - (w \div 2),
          y |-> bounds.y + bounds.h]
    [] arrowAlign = JI_BOTTOM ->
         [x |-> bounds.x + (bounds.w \div 2) - (w \div 2),
          y |-> bounds.y - h]
    [] arrowAlign = JI_LEFT ->
         [x |-> bounds.x + bounds.w,
          y |-> bounds.y + (bounds.h \div 2) - (h \div 2)]
    [] arrowAlign = JI_RIGHT ->
         [x |-> bounds.x - w,
          y |-> bounds.y + (bounds.h \div 2) - (h \div 2)]
    [] OTHER -> [x |-> x, y |-> y]

\* The origin as the switch left it.
ClampOrigin_unclamped(p, w, h, display) == p

\* x = MID(0, x, ui::display_w()-w); y = MID(0, y, ui::display_h()-h);
ClampOrigin(p, w, h, display) ==
  [x |-> MID(0, p.x, display.w - w), y |-> MID(0, p.y, display.h - h)]

\* A switch on trycount that flips both axes after every collision.
SwitchAlign_flip_only(trycount, arrowAlign) ==
  LET a == IF BitsIn(arrowAlign, JI_TOP \cup JI_BOTTOM)
           THEN Xor(arrowAlign, JI_TOP \cup JI_BOTTOM) ELSE arrowAlign
  IN IF BitsIn(a, JI_LEFT \cup JI_RIGHT)
     THEN Xor(a, JI_LEFT \cup JI_RIGHT) ELSE a

\* The switch on trycount in onTick: the alignment of the next attempt.
SwitchAlign(trycount, arrowAlign) ==
  IF trycount \in {0, 2}
  THEN LET a == IF BitsIn(arrowAlign, JI_TOP \cup JI_BOTTOM)
                THEN Xor(arrowAlign, JI_TOP \cup JI_BOTTOM) ELSE arrowAlign
       IN IF BitsIn(a, JI_LEFT \cup JI_RIGHT)
          THEN Xor(a, JI_LEFT \cup JI_RIGHT) ELSE a
  ELSE IF trycount = 1
  THEN LET a == IF BitsIn(arrowAlign, JI_TOP \cup JI_LEFT)
                THEN Xor(arrowAlign, JI_TOP \cup JI_LEFT) ELSE arrowAlign
       IN IF BitsIn(a, JI_BOTTOM \cup JI_RIGHT)
          THEN Xor(a, JI_BOTTOM \cup JI_RIGHT) ELSE a
  ELSE arrowAlign

\* A test that finds every place free, and one that finds none.
Collides_never(bounds, x, y, w, h) == FALSE
Collides_always(bounds, x, y, w, h) == TRUE

\* bounds.intersects(gfx::Rect(x, y, w, h))
Collides(bounds, x, y, w, h) ==
  intersects(bounds, [x |-> x, y |-> y, w |-> w, h |-> h])

\* for (; trycount < 4; ++trycount) { ... }: the attempts made, each with
\* its alignment and its clamped origin, and whether the last one was free.
RECURSIVE PlacementLoop(_, _, _, _, _, _, _, _)
PlacementLoop(trycount, arrowAlign, x, y, bounds, w, h, display) ==
  IF ~(trycount < 4) THEN [opened |-> FALSE, attempts |-> <<>>]
  ELSE LET p == ClampOrigin(SwitchOrigin(arrowAlign, bounds, w, h, x, y),
                            w, h, display)
           hit == Collides(bounds, p.x, p.y, w, h)
           attempt == [arrowAlign |-> arrowAlign, x |-> p.x, y |-> p.y,
                       collides |-> hit]
       IN IF hit
          THEN LET rest == PlacementLoop(trycount + 1,
                                         SwitchAlign(trycount, arrowAlign),
                                         p.x, p.y, bounds, w, h, display)
               IN [opened |-> rest.opened,
                   attempts |-> <<attempt>> \o rest.attempts]
          ELSE [opened |-> TRUE, attempts |-> <<attempt>>]

(* -------------------------------------------------- tooltips: manager *)

\* static const int kTooltipDelayMsecs
kTooltipDelayMsecs == 300

\* Widgets of the application, by identity.
Widgets == {"A", "B", "R"}

\* m_target.widget before any widget was hovered; a null Timer; a null
\* TipWindow; a widget without an entry in m_tips.
NULL_WIDGET == "(none)"
NULL_TIMER == 0
NULL_WINDOW == [ptr |-> FALSE]
NO_TIP == [present |-> FALSE, text |-> "", arrowAlign |-> {}]

\* TipInfo(text, arrowAlign), as an entry of m_tips.
TipInfo(text, arrowAlign) ==
  [present |-> TRUE, text |-> text, arrowAlign |-> arrowAlign]

\* The manager as a record of its members and of what they point to.
Manager ==
  [m_tips |-> m_tips, m_target |-> m_target, m_timer |-> m_timer,
   m_tipWindow |-> m_tipWindow, timers |-> timers, screen |-> screen]

\* closeWindow: the window leaves the screen.
RECURSIVE closeWindow(_, _)
closeWindow(open, window) ==
  IF open = <<>> THEN <<>>
  ELSE IF Head(open) = window THEN Tail(open)
  ELSE <<Head(open)>> \o closeWindow(Tail(open), window)

\* Timer::start and Timer::stop on the Timer at position t.
TimerStart(all, t) == [all EXCEPT ![t].running = TRUE]
TimerStop(all, t) == [all EXCEPT ![t].running = FALSE]

\* TooltipManager::addTooltipFor
addTooltipFor(mgr, widget, text, arrowAlign) ==
  [mgr EXCEPT !.m_tips[widget] = TipInfo(text, arrowAlign)]

\* TooltipManager::removeTooltipFor
removeTooltipFor(mgr, widget) ==
  IF mgr.m_tips[widget].present
  THEN [mgr EXCEPT !.m_tips[widget] = NO_TIP]
  ELSE mgr

\* The loop body with a Timer of its own for every widget entered.
EnterWidget_timer_per_enter(mgr, widget) ==
  IF mgr.m_tips[widget].present
  THEN LET all == Append(mgr.timers,
                         [interval |-> kTooltipDelayMsecs, running |-> FALSE])
       IN [mgr EXCEPT
             !.m_target = [widget |-> widget,
                           tipInfo |-> mgr.m_tips[widget]],
             !.m_timer = Len(all),
             !.timers = TimerStart(all, Len(all))]
  ELSE mgr

\* The loop body without m_timer->start().
EnterWidget_timer_not_started(mgr, widget) ==
  IF mgr.m_tips[widget].present
  THEN LET created == mgr.m_timer = NULL_TIMER
           all == IF created
                  THEN Append(mgr.timers,
                              [interval |-> kTooltipDelayMsecs,
                               running |-> FALSE])
                  ELSE mgr.timers
       IN [mgr EXCEPT
             !.m_target = [widget |-> widget,
                           tipInfo |-> mgr.m_tips[widget]],
             !.m_timer = IF created THEN Len(all) ELSE mgr.m_timer,
             !.timers = all]
  ELSE mgr

\* The loop body with the timer started for every recipient, registered or
\* not.
EnterWidget_timer_for_any(mgr, widget) ==
  LET created == mgr.m_timer = NULL_TIMER
      all == IF created
             THEN Append(mgr.timers,
                         [interval |-> kTooltipDelayMsecs, running |-> FALSE])
             ELSE mgr.timers
      t == IF created THEN Len(all) ELSE mgr.m_timer
  IN [mgr EXCEPT
        !.m_target = IF mgr.m_tips[widget].present
                     THEN [widget |-> widget, tipInfo |-> mgr.m_tips[widget]]
                     ELSE mgr.m_target,
        !.m_timer = t,
        !.timers = TimerStart(all, t)]

\* The body of the loop over the recipients of a kMouseEnterMessage.
EnterWidget(mgr, widget) ==
  IF mgr.m_tips[widget].present
  THEN LET created == mgr.m_timer = NULL_TIMER
           all == IF created
                  THEN Append(mgr.timers,
                              [interval |-> kTooltipDelayMsecs,
                               running |-> FALSE])
                  ELSE mgr.timers
           t == IF created THEN Len(all) ELSE mgr.m_timer
       IN [mgr EXCEPT
             !.m_target = [widget |-> widget,
                           tipInfo |-> mgr.m_tips[widget]],
             !.m_timer = t,
             !.timers = TimerStart(all, t)]
  ELSE mgr

\* TooltipManager::onProcessMessage, case kMouseEnterMessage.
RECURSIVE onMouseEnter(_, _)
onMouseEnter(mgr, recipients) ==
  IF recipients = <<>> THEN mgr
  ELSE onMouseEnter(EnterWidget(mgr, Head(recipients)), Tail(recipients))

\* A dismissal that leaves the popup on the screen.
CloseTipWindow_popup_kept(mgr) == [mgr |-> mgr, events |-> <<>>]

\* The first half of the dismissal: the popup, if there is one, is closed
\* and released.
CloseTipWindow(mgr) ==
  IF mgr.m_tipWindow.ptr
  THEN [mgr |-> [mgr EXCEPT
                   !.screen = closeWindow(mgr.screen, mgr.m_tipWindow),
                   !.m_tipWindow = NULL_WINDOW],
        events |-> <<[fn |-> "closeWindow"]>>]
  ELSE [mgr |-> mgr, events |-> <<>>]

\* A dismissal that leaves the timer as it is.
onDismiss_timer_kept(mgr) == CloseTipWindow(mgr)

\* TooltipManager::onProcessMessage, cases kKeyDownMessage,
\* kMouseDownMessage and kMouseLeaveMessage.
onDismiss(mgr) ==
  LET closed == CloseTipWindow(mgr)
  IN IF closed.mgr.m_timer # NULL_TIMER
     THEN [mgr |-> [closed.mgr EXCEPT
                      !.timers = TimerStop(closed.mgr.timers,
                                           closed.mgr.m_timer)],
           events |-> closed.events \o <<[fn |-> "stop"]>>]
     ELSE closed

\* A TipWindow whose alignment stays the 0 of its constructor.
TipWindow_align_unset(text, target, size, arrowAlign, x, y) ==
  [ptr |-> TRUE, text |-> text, target |-> target, arrowAlign |-> {},
   x |-> x, y |-> y, w |-> size.w, h |-> size.h]

\* new TipWindow(text, bounds), remapped to its preferred size and placed at
\* an origin with an alignment.
TipWindow(text, target, size, arrowAlign, x, y) ==
  [ptr |-> TRUE, text |-> text, target |-> target, arrowAlign |-> arrowAlign,
   x |-> x, y |-> y, w |-> size.w, h |-> size.h]

\* The block of onTick under if (!m_tipWindow), with the surroundings e it
\* reads: the bounds of the widgets, the display, the mouse, the gui scale
\* and the text fitting. A popup that is there already makes it do nothing.
PlaceTipWindow(mgr, e) ==
  IF ~mgr.m_tipWindow.ptr
  THEN LET bounds == e.bounds[mgr.m_target.widget]
           size == onPreferredSize(e.fit, onInitTheme(e.guiscale), <<>>)
           r == PlacementLoop(0, mgr.m_target.tipInfo.arrowAlign,
                              e.mouse.x + 12 * e.guiscale,
                              e.mouse.y + 12 * e.guiscale,
                              bounds, size.w, size.h, e.display)
           last == r.attempts[Len(r.attempts)]
           window == TipWindow(mgr.m_target.tipInfo.text, bounds, size,
                               last.arrowAlign, last.x, last.y)
       IN [mgr |-> IF r.opened
                   THEN [mgr EXCEPT !.m_tipWindow = window,
                                    !.screen = Append(mgr.screen, window)]
                   ELSE [mgr EXCEPT
                           !.timers = TimerStop(mgr.timers, mgr.m_timer)],
           events |-> r.attempts]
  ELSE [mgr |-> mgr, events |-> <<>>]

\* A tick without the m_timer->stop() that ends onTick.
onTick_timer_left_running(mgr, e) == PlaceTipWindow(mgr, e)

\* TooltipManager::onTick
onTick(mgr, e) ==
  LET placed == PlaceTipWindow(mgr, e)
  IN [mgr |-> [placed.mgr EXCEPT
                 !.timers = TimerStop(placed.mgr.timers, mgr.m_timer)],
      events |-> placed.events]

(* ---------------------------------------------- tooltips: input sets *)

Rect(x, y, w, h) == [x |-> x, y |-> y, w |-> w, h |-> h]
Size(w, h) == [w |-> w, h |-> h]
Point(x, y) == [x |-> x, y |-> y]

\* A desktop: two buttons, and a widget R that covers the display.
DesktopEnv ==
  [display |-> Size(800, 600),
   bounds |-> [widget \in Widgets |->
                 CASE widget = "A" -> Rect(100, 100, 50, 20)
                   [] widget = "B" -> Rect(300, 200, 80, 24)
                   [] OTHER -> Rect(0, 0, 800, 600)],
   mouse |-> Point(110, 110),
   guiscale |-> 1,
   fit |-> Size(48, 17)]

\* The text of each widget's tooltip, and the alignments handed to
\* addTooltipFor (0 is the default).
TipTexts ==
  [widget \in Widgets |->
     CASE widget = "A" -> "Open" [] widget = "B" -> "Save" [] OTHER -> "Desk"]
TipAligns == {{}, JI_BOTTOM \cup JI_RIGHT}

\* Recipients of a kMouseEnterMessage: a widget, or a widget and its parent.
Recipients ==
  {<<a>> : a \in Widgets}
    \cup {<<a, b>> : a \in Widgets \ {"R"}, b \in {"R"}}

\* The messages that dismiss a tooltip.
DismissTypes == {"kKeyDownMessage", "kMouseDownMessage", "kMouseLeaveMessage"}

\* A TooltipManager after its construction.
NewManager ==
  [m_tips |-> [widget \in Widgets |-> NO_TIP],
   m_target |-> [widget |-> NULL_WIDGET, tipInfo |-> NO_TIP],
   m_timer |-> NULL_TIMER,
   m_tipWindow |-> NULL_WINDOW,
   timers |-> <<>>,
   screen |-> <<>>]

\* The members of the manager are those of mgr.
IsManager(mgr) ==
  /\ m_tips = mgr.m_tips
  /\ m_target = mgr.m_target
  /\ m_timer = mgr.m_timer
  /\ m_tipWindow = mgr.m_tipWindow
  /\ timers = mgr.timers
  /\ screen = mgr.screen

InitManager == IsManager(NewManager)

\* What a placement reads: displays, target rectangles (a button, the whole
\* display, bands along and across it, an empty one, one inside the small
\* display), text sizes, gui scales, mouse positions, and every alignment
\* next to the default 0.
Displays == {Size(800, 600), Size(64, 48)}
Targets ==
  {Rect(100, 100, 50, 20), Rect(0, 0, 800, 600), Rect(0, 280, 800, 40),
   Rect(0, 0, 800, 40), Rect(380, 0, 40, 600), Rect(760, 0, 40, 600),
   Rect(0, 0, 0, 0), Rect(10, 10, 44, 28)}
Fits == {Size(48, 17), Size(60, 40)}
Guiscales == {1, 2}
Mice == {Point(110, 110), Point(0, 0)}
PlacementAligns == ValidAligns \cup {{}}
PlacementEnvs ==
  {[display |-> d, bounds |-> [widget \in Widgets |-> t], mouse |-> m,
    guiscale |-> g, fit |-> f] :
     d \in Displays, t \in Targets, m \in Mice, g \in Guiscales, f \in Fits}

\* The TipWindow variable while the manager owns every TipWindow.
ManagedTip == [open |-> FALSE]

(* ------------------------------------------------------------ the machine *)

\* Key combinations held by all accelerators of the table together.
RECURSIVE KeyCombosFrom(_)
KeyCombosFrom(cmd) ==
  IF cmd > Len(commands) THEN 0
  ELSE Len(commands[cmd].accel.key_combos) + KeyCombosFrom(cmd + 1)

\* The key combinations of the accelerators a reset releases.
ReleasedKeys ==
  UNION {{commands[c].accel.key_combos[k] :
            k \in 1..Len(commands[c].accel.key_combos)} :
         c \in {d \in 1..Len(commands) : commands[d].accel.allocated}}

\* history.reset: command_reset_keys has run and no command_add_key since.
\* history.released: the key combinations released by the last run of
\* consecutive calls of command_reset_keys.
\* history.resets_in_a_row: the calls of command_reset_keys that end the
\* sequence of calls so far, counted up to 2.
InitCommands ==
  /\ commands = [i \in 1..NumCommands |->
                   [name |-> CommandNames[i], accel |-> NULL_ACCEL]]
  /\ call = [op |-> "none"]
  /\ ret = "void"
  /\ events = <<>>
  /\ pc = "returned"
  /\ history = [reset |-> FALSE, released |-> {}, resets_in_a_row |-> 0]

Init ==
  /\ InitCommands
  /\ InitManager
  /\ env = DesktopEnv
  /\ entered = FALSE
  /\ tip = ManagedTip

GetByName ==
  \E name \in NameInputs :
    /\ call' = [op |-> "command_get_by_name", name |-> name]
    /\ ret' = command_get_by_name(name)
    /\ events' = <<>>
    /\ pc' = "returned"
    /\ history' = [history EXCEPT !.resets_in_a_row = 0]
    /\ UNCHANGED <<commands, tipVars>>

GetByKey ==
  \E msg \in KeyMessages :
    /\ call' = [op |-> "command_get_by_key", msg |-> msg]
    /\ ret' = command_get_by_key(msg)
    /\ events' = <<>>
    /\ pc' = "returned"
    /\ history' = [history EXCEPT !.resets_in_a_row = 0]
    /\ UNCHANGED <<commands, tipVars>>

AddKey ==
  \E command \in 1..NumCommands, string \in ChordStrings :
    /\ KeyCombosFrom(1) < MaxKeyCombos
    /\ LET r == command_add_key(command, string)
       IN /\ call' = [op |-> "command_add_key",
                      command |-> command, string |-> string]
          /\ ret' = "void"
          /\ events' = r.events
          /\ pc' = "returned"
          /\ commands' = r.commands
          /\ history' =
               [reset |-> FALSE, released |-> {}, resets_in_a_row |-> 0]
          /\ UNCHANGED tipVars

ResetKeys ==
  LET r == command_reset_keys
  IN /\ call' = [op |-> "command_reset_keys"]
     /\ ret' = "void"
     /\ events' = r.events
     /\ pc' = "returned"
     /\ commands' = r.commands
     /\ history' =
          [reset |-> TRUE,
           released |->
             IF history.resets_in_a_row = 0
             THEN ReleasedKeys
             ELSE history.released \cup ReleasedKeys,
           resets_in_a_row |->
             IF history.resets_in_a_row = 0 THEN 1 ELSE 2]
     /\ UNCHANGED tipVars

IsEnabled ==
  \E command \in CommandInputs, argument \in Arguments :
    LET r == command_is_enabled(command, argument)
    IN /\ call' = [op |-> "command_is_enabled",
                   command |-> command, argument |-> argument]
       /\ ret' = r.ret
       /\ events' = r.events
       /\ pc' = "returned"
       /\ UNCHANGED <<commands, history, tipVars>>

IsChecked ==
  \E command \in CommandInputs, argument \in Arguments :
    LET r == command_is_checked(command, argument)
    IN /\ call' = [op |-> "command_is_checked",
                   command |-> command, argument |-> argument]
       /\ ret' = r.ret
       /\ events' = r.events
       /\ pc' = "returned"
       /\ UNCHANGED <<commands, history, tipVars>>

Execute ==
  \E command \in CommandInputs, argument \in Arguments :
    LET r == command_execute(command, argument)
    IN /\ call' = [op |-> "command_execute",
                   command |-> command, argument |-> argument]
       /\ ret' = "void"
       /\ events' = r.events
       /\ pc' = r.pc
       /\ UNCHANGED <<commands, history, tipVars>>

\* The registry: lookups and key bindings.
Next ==
  \/ GetByName
  \/ GetByKey
  \/ AddKey
  \/ ResetKeys

Spec == Init /\ [][Next]_vars

\* The dispatch: the calls that take a Command* and run its callables. They
\* neither read nor write the table.
NextDispatch ==
  \/ IsEnabled
  \/ IsChecked
  \/ Execute

SpecDispatch == Init /\ [][NextDispatch]_vars

(* ------------------------------------------------ the tooltip machine *)

\* The members of the manager become those of mgr.
SetManager(mgr) ==
  /\ m_tips' = mgr.m_tips
  /\ m_target' = mgr.m_target
  /\ m_timer' = mgr.m_timer
  /\ m_tipWindow' = mgr.m_tipWindow
  /\ timers' = mgr.timers
  /\ screen' = mgr.screen

AddTooltipFor ==
  \E widget \in Widgets, arrowAlign \in TipAligns :
    /\ SetManager(addTooltipFor(Manager, widget, TipTexts[widget], arrowAlign))
    /\ call' = [op |-> "addTooltipFor", widget |-> widget,
                text |-> TipTexts[widget],
                arrowAlign |-> arrowAlign]
    /\ ret' = "void"
    /\ events' = <<>>
    /\ pc' = "returned"
    /\ UNCHANGED <<commands, history, env, tip, entered>>

RemoveTooltipFor ==
  \E widget \in Widgets :
    /\ SetManager(removeTooltipFor(Manager, widget))
    /\ call' = [op |-> "removeTooltipFor", widget |-> widget]
    /\ ret' = "void"
    /\ events' = <<>>
    /\ pc' = "returned"
    /\ UNCHANGED <<commands, history, env, tip, entered>>

\* The manager filters a kMouseEnterMessage.
MouseEnter ==
  \E recipients \in Recipients :
    /\ SetManager(onMouseEnter(Manager, recipients))
    /\ call' = [op |-> "onProcessMessage", type |-> "kMouseEnterMessage",
                recipients |-> recipients]
    /\ ret' = "false"
    /\ events' = <<>>
    /\ pc' = "returned"
    /\ entered' = (entered \/ \E i \in 1..Len(recipients) :
                                  m_tips[recipients[i]].present)
    /\ UNCHANGED <<commands, history, env, tip>>

\* The manager filters a key-down, a mouse-down or a mouse-leave.
Dismiss ==
  \E type \in DismissTypes :
    /\ SetManager(onDismiss(Manager).mgr)
    /\ call' = [op |-> "onProcessMessage", type |-> type]
    /\ ret' = "false"
    /\ events' = onDismiss(Manager).events
    /\ pc' = "returned"
    /\ entered' = FALSE
    /\ UNCHANGED <<commands, history, env, tip>>

\* A running Timer fires: its Tick signal calls onTick.
Tick ==
  /\ m_timer # NULL_TIMER
  /\ timers[m_timer].running
  /\ LET r == onTick(Manager, env)
     IN /\ SetManager(r.mgr)
        /\ events' = r.events
  /\ call' = [op |-> "onTick"]
  /\ ret' = "void"
  /\ pc' = "returned"
  /\ UNCHANGED <<commands, history, env, tip, entered>>

\* The life of a tooltip session on the desktop.
NextTooltip ==
  \/ AddTooltipFor
  \/ RemoveTooltipFor
  \/ MouseEnter
  \/ Dismiss
  \/ Tick

SpecTooltip == Init /\ [][NextTooltip]_vars

\* A session is Pending over a widget with a tooltip, somewhere on some
\* display: the manager after addTooltipFor and a mouse-enter.
InitPlacement ==
  /\ InitCommands
  /\ \E e \in PlacementEnvs, arrowAlign \in PlacementAligns :
       /\ env = e
       /\ IsManager(onMouseEnter(addTooltipFor(NewManager, "A", TipTexts["A"],
                                               arrowAlign),
                                 <<"A">>))
  /\ entered = TRUE
  /\ tip = ManagedTip

\* The placement: the timer of the Pending session fires.
NextPlacement == Tick

SpecPlacement == InitPlacement /\ [][NextPlacement]_vars

(* ---------------------------------------------- the TipWindow machine *)

\* Preferred sizes of the children of a TipWindow, and the lists of them.
ChildSizes == {Size(16, 16), Size(100, 8), Size(20, 30)}
ChildLists == UNION {[1..n -> ChildSizes] : n \in 0..MaxChildren}

\* Messages sent to an open TipWindow: key-downs with scancodes of ordinary
\* keys and of modifier keys, on both sides of the first modifier, and a
\* message of another type.
TipMessages ==
  {[type |-> "kKeyDownMessage", scancode |-> k] :
     k \in {1, kKeyFirstModifierScancode - 1, kKeyFirstModifierScancode,
            kKeyFirstModifierScancode + 1}}
    \cup {[type |-> "kMouseMoveMessage", scancode |-> 0]}

\* An open TipWindow with its theme initialised, its text fitted and some
\* children; the manager plays no part.
InitTipWindow ==
  /\ InitCommands
  /\ InitManager
  /\ env = DesktopEnv
  /\ entered = FALSE
  /\ tip \in {[open |-> TRUE, fit |-> f, border_width |-> onInitTheme(g),
               children |-> c] :
                f \in Fits, g \in Guiscales, c \in ChildLists}

\* A message reaches the open TipWindow.
TipProcessMessage ==
  \E msg \in TipMessages :
    /\ tip.open
    /\ tip' = TipWindow_onProcessMessage(tip, msg)
    /\ call' = [op |-> "TipWindow::onProcessMessage", msg |-> msg]
    /\ ret' = "bool"
    /\ events' = <<>>
    /\ pc' = "returned"
    /\ UNCHANGED <<commands, history, mgrVars>>

\* The preferred size of the TipWindow is asked.
TipPreferredSize ==
  /\ call' = [op |-> "TipWindow::onPreferredSize"]
  /\ ret' = onPreferredSize(tip.fit, tip.border_width, tip.children)
  /\ events' = <<>>
  /\ pc' = "returned"
  /\ UNCHANGED <<commands, history, mgrVars, tip>>

NextTipWindow ==
  \/ TipProcessMessage
  \/ TipPreferredSize

SpecTipWindow == InitTipWindow /\ [][NextTipWindow]_vars

(* ------------------------------------------------- properties: dispatch *)

\* The number of calls to fn among the events of the last operation.
CallsTo(fn) == Cardinality({k \in 1..Len(events) : events[k].fn = fn})

\* The positions of the calls to fn among the events of the last operation.
PositionsOf(fn) == {k \in 1..Len(events) : events[k].fn = fn}

\* The last operation was command_execute on a non-null command whose
\* enabled callable returns false for the argument given.
ExecutedDisabled ==
  /\ call.op = "command_execute"
  /\ call.command.valid
  /\ call.command.enabled # NULL_FN
  /\ ~CallEnabled(call.command.enabled, call.argument)

\* C1: command_execute on a non-null command whose enabled callable returns
\* false for the argument never invokes the execute callable, whatever the
\* argument; the console is opened exactly once and closed exactly once, and
\* the call returns to its caller without reporting anything.
C1_DisabledIsSkipped ==
  ExecutedDisabled =>
    /\ CallsTo("execute") = 0
    /\ CallsTo("console_open") = 1
    /\ CallsTo("console_close") = 1
    /\ pc = "returned"
    /\ ret = "void"

\* A disabled command that has an execute callable was handed to
\* command_execute with a non-null argument: the enabled callable was asked
\* and the execute callable was skipped.
C1_Witness ==
  /\ ExecutedDisabled
  /\ call.command.execute # NULL_FN
  /\ call.argument # NULL_STR
  /\ CallsTo("enabled") = 1
  /\ CallsTo("execute") = 0

\* command_execute's condition for running the execute callable, read from
\* the command and the argument of the last call.
MayExecute ==
  /\ call.command.valid
  /\ call.command.execute # NULL_FN
  /\ \/ call.command.enabled = NULL_FN
     \/ CallEnabled(call.command.enabled, call.argument)

C3_ClosedOnEveryExit ==
  call.op = "command_execute" =>
    /\ CallsTo("console_close") = CallsTo("console_open")
    /\ pc = "returned"

\* C9: command_is_enabled returns what the enabled callable returns for the
\* argument of the call, the callable being asked once with that argument,
\* when the command is non-null and has the callable; in every other case,
\* the null command included, it returns true and asks nothing.
C9_IsEnabled ==
  call.op = "command_is_enabled" =>
    IF call.command.valid /\ call.command.enabled # NULL_FN
    THEN /\ events = <<[fn |-> "enabled", argument |-> call.argument]>>
         /\ ret = CallEnabled(call.command.enabled, call.argument)
    ELSE /\ events = <<>>
         /\ ret = TRUE

\* command_is_enabled was called with a null argument on a command whose
\* enabled callable wants an argument, and returned the callable's false.
C9_Witness ==
  /\ call.op = "command_is_enabled"
  /\ call.command.valid
  /\ call.command.enabled = "with_argument"
  /\ call.argument = NULL_STR
  /\ ret = FALSE

(* ------------------------------------------------- properties: registry *)

\* The positions of the table.
Registered == 1..Len(commands)

\* C4: for every command c of the table command_get_by_name(c.name) returns
\* c itself, in every state of the table, before and after any sequence of
\* command_add_key and command_reset_keys; a call made with a registered
\* name has returned the command of that name.
C4_NameRoundTrip ==
  /\ \A c \in Registered : command_get_by_name(commands[c].name) = c
  /\ call.op = "command_get_by_name" =>
       \A c \in Registered : commands[c].name = call.name => ret = c

\* The name of a command that is not the first of the table was looked up
\* while accelerators were bound, and that command came back.
C4_Witness ==
  /\ call.op = "command_get_by_name"
  /\ ret \in Registered
  /\ ret > 1
  /\ commands[ret].name = call.name
  /\ \E c \in Registered : commands[c].accel.allocated

\* C5: command_get_by_name returns NULL, and returns normally, for the null
\* name, for the empty name and for every string that is not the name of a
\* command of the table.
C5_NameNotFound ==
  /\ \A name \in NameInputs :
       (\/ name = NULL_STR
        \/ name = ""
        \/ \A c \in Registered : commands[c].name # name)
         => command_get_by_name(name) = NULL
  /\ (/\ call.op = "command_get_by_name"
      /\ \/ call.name \in {NULL_STR, ""}
         \/ \A c \in Registered : commands[c].name # call.name)
       => ret = NULL /\ pc = "returned" /\ events = <<>>

\* A string that begins a registered name, without being one, was looked
\* up and nothing was found.
C5_Witness ==
  /\ call.op = "command_get_by_name"
  /\ call.name = "abou"
  /\ ret = NULL

\* The commands whose accelerator matches the key message.
Matching(msg) ==
  {c \in Registered :
     /\ commands[c].accel.allocated
     /\ jaccel_check(commands[c].accel,
                     msg.shifts, msg.key.ascii, msg.key.scancode)}

\* The least element of a non-empty set of positions.
Lowest(S) == CHOOSE c \in S : \A d \in S : c <= d

\* C6: command_get_by_key returns the command of lowest position among those
\* whose accelerator matches the shifts, ascii code and scancode of the
\* message, and NULL when none matches; a command without accelerator
\* matches no message.
C6_FirstMatchWins ==
  /\ \A msg \in KeyMessages :
       /\ command_get_by_key(msg) =
            IF Matching(msg) = {} THEN NULL ELSE Lowest(Matching(msg))
       /\ \A c \in Registered :
            ~commands[c].accel.allocated
              => ~command_is_key_pressed(commands[c], msg)
  /\ call.op = "command_get_by_key" =>
       ret = IF Matching(call.msg) = {} THEN NULL
             ELSE Lowest(Matching(call.msg))

\* Two commands were bound to the chord of the message, after a command
\* that has no accelerator, and the earlier of the two came back.
C6_Witness ==
  /\ call.op = "command_get_by_key"
  /\ \E c, d \in Matching(call.msg) : c < d /\ ret = c
  /\ \E c \in Registered : c < ret /\ ~commands[c].accel.allocated

\* C7: after command_reset_keys, and until the next command_add_key,
\* command_get_by_key returns NULL for every key message, the chords that
\* were bound before the reset included.
C7_NothingFoundAfterReset ==
  history.reset =>
    /\ \A msg \in KeyMessages : command_get_by_key(msg) = NULL
    /\ call.op = "command_get_by_key" => ret = NULL

\* The key combination matches the key message.
KeyMatches(key, msg) ==
  jaccel_check([allocated |-> TRUE, key_combos |-> <<key>>],
               msg.shifts, msg.key.ascii, msg.key.scancode)

\* A chord the reset released was looked up after the reset and nothing was
\* found.
C7_Witness ==
  /\ history.reset
  /\ call.op = "command_get_by_key"
  /\ \E key \in history.released : KeyMatches(key, call.msg)
  /\ ret = NULL

\* C8: command_reset_keys is idempotent: after a call every accelerator is
\* absent, one more call would leave the table as it is and release nothing,
\* and a call that follows another at once has released nothing.
C8_ResetIdempotent ==
  call.op = "command_reset_keys" =>
    /\ \A c \in Registered : commands[c].accel = NULL_ACCEL
    /\ command_reset_keys.commands = commands
    /\ command_reset_keys.events = <<>>
    /\ history.resets_in_a_row = 2 => events = <<>>

\* command_reset_keys ran twice in a row: the first call released bound
\* chords, the second nothing.
C8_Witness ==
  /\ call.op = "command_reset_keys"
  /\ history.resets_in_a_row = 2
  /\ history.released # {}
  /\ events = <<>>

\* The key combination a chord text stands for.
KeyOfChord(string) ==
  CASE string = <<"A">> ->
         [shifts |-> {}, ascii |-> "a", scancode |-> "KEY_A"]
    [] string = <<"Ctrl", "A">> ->
         [shifts |-> {"Ctrl"}, ascii |-> "a", scancode |-> "KEY_A"]
    [] string = <<"F1">> ->
         [shifts |-> {}, ascii |-> "NUL", scancode |-> "KEY_F1"]

\* The key message of someone pressing the key combination.
MsgOfKey(key) ==
  [shifts |-> key.shifts,
   key |-> [ascii |-> key.ascii, scancode |-> key.scancode]]

\* What a step that is a call command_add_key(c, chord) does.
AddKeyEffect ==
  LET c == call'.command
      key == KeyOfChord(call'.string)
      before == commands[c].accel
      after == commands'[c].accel
  IN /\ after.allocated
     /\ events' = IF before.allocated THEN <<>> ELSE <<[fn |-> "jaccel_new"]>>
     /\ after.key_combos = Append(before.key_combos, key)
     /\ command_is_key_pressed(commands'[c], MsgOfKey(key))
     /\ \A k \in 1..Len(before.key_combos) :
          command_is_key_pressed(commands'[c], MsgOfKey(before.key_combos[k]))
     /\ \A msg \in KeyMessages :
          command_is_key_pressed(commands[c], msg)
            => command_is_key_pressed(commands'[c], msg)
     /\ commands'[c].name = commands[c].name
     /\ \A d \in Registered \ {c} : commands'[d] = commands[d]

\* C10: command_add_key(c, chord) allocates the accelerator of c if it is
\* absent and appends the chord to it: afterwards the accelerator of c
\* matches the new chord and every chord bound to c since the last reset,
\* and every other command is as it was.
C10_AddKeyAppends ==
  [][call'.op = "command_add_key" => AddKeyEffect]_vars

\* A second chord was bound to a command while another command held an
\* accelerator: the command matches both of its chords.
C10_Witness ==
  /\ call.op = "command_add_key"
  /\ events = <<>>
  /\ Len(commands[call.command].accel.key_combos) = 2
  /\ \A k \in 1..2 :
       command_is_key_pressed(
         commands[call.command],
         MsgOfKey(commands[call.command].accel.key_combos[k]))
  /\ commands[call.command].accel.key_combos[1]
       # commands[call.command].accel.key_combos[2]
  /\ \E d \in Registered \ {call.command} : commands[d].accel.allocated

(* ------------------------------------------------- properties: tooltips *)

\* The manager has just processed a key-down, a mouse-down or a mouse-leave.
Dismissed == call.op = "onProcessMessage" /\ call.type \in DismissTypes

\* The Timer objects that are running.
RunningTimers == {t \in 1..Len(timers) : timers[t].running}

\* C11: from any state, once the manager has processed a key-down, a
\* mouse-down or a mouse-leave, no popup is open and the timer is not
\* running.
C11_DismissedIsIdle ==
  Dismissed => (screen = <<>> /\ ~m_tipWindow.ptr /\ RunningTimers = {})

\* A dismissal that found a popup open: it closed the popup and stopped the
\* timer.
C11_Witness ==
  /\ Dismissed
  /\ events = <<[fn |-> "closeWindow"], [fn |-> "stop"]>>

\* The popup is the one of the session: it shows the target's text and
\* points at the target's bounds.
PopupOfTarget(window) ==
  /\ window.text = m_target.tipInfo.text
  /\ window.target = env.bounds[m_target.widget]

\* C12: a mouse-enter over a registered widget B replaces the session of
\* another widget A, Pending or Shown: when the timer has fired next, every
\* popup that is open is B's, with B's text and B's bounds, and none of A
\* was opened or left open.
C12_LastEnterWins ==
  call.op = "onTick" => \A i \in 1..Len(screen) : PopupOfTarget(screen[i])

(* ------------------------------------------------ properties: placement *)

\* onTick has just searched a place for a new popup, and has opened it.
Searched == call.op = "onTick" /\ events # <<>>
Opened == Searched /\ m_tipWindow.ptr

\* The pixels of a rectangle, by column and by row.
Columns(rc) == rc.x .. (rc.x + rc.w - 1)
Rows(rc) == rc.y .. (rc.y + rc.h - 1)
Overlap(a, b) ==
  /\ Columns(a) \cap Columns(b) # {}
  /\ Rows(a) \cap Rows(b) # {}

PopupRect(window) ==
  [x |-> window.x, y |-> window.y, w |-> window.w, h |-> window.h]

\* The bounds of the widget the session is about.
TargetBounds == env.bounds[m_target.widget]

\* C13: whenever onTick opens a popup, the popup's rectangle has no pixel in
\* common with the bounds of the target widget, whatever the target, the
\* popup size, the display and the starting alignment.
C13_PopupClearOfTarget ==
  Opened => \A i \in 1..Len(screen) :
              ~Overlap(PopupRect(screen[i]), TargetBounds)

\* A popup opened at the second attempt, the first having collided with a
\* target that is not empty.
C13_Witness ==
  /\ Opened
  /\ Len(events) = 2
  /\ events[1].collides
  /\ ~IsEmpty(TargetBounds)

\* The popup lies within the display.
InsideDisplay(window) ==
  /\ 0 <= window.x
  /\ window.x + window.w <= env.display.w
  /\ 0 <= window.y
  /\ window.y + window.h <= env.display.h

\* C14 as stated: whenever onTick opens a popup, the popup lies fully within
\* the display, whatever the target, the popup size and the display size.
C14_PopupInsideDisplay == Opened => InsideDisplay(m_tipWindow)

\* C14, amended: whenever onTick opens a popup that is no wider and no
\* higher than the display, the popup lies fully within the display.
C14_FittingPopupInsideDisplay ==
  (/\ Opened
   /\ m_tipWindow.w <= env.display.w
   /\ m_tipWindow.h <= env.display.h) => InsideDisplay(m_tipWindow)

\* A popup that fits the display and was opened against its upper edge,
\* where the alignment asked for a place above the display.
C14_Witness ==
  /\ Opened
  /\ m_tipWindow.w <= env.display.w
  /\ m_tipWindow.h <= env.display.h
  /\ m_tipWindow.arrowAlign = JI_BOTTOM \cup JI_RIGHT
  /\ TargetBounds.y - m_tipWindow.h < 0
  /\ m_tipWindow.y = 0

\* The size of the popup onTick creates, and the rectangle of its attempt i.
PopupSize == onPreferredSize(env.fit, onInitTheme(env.guiscale), <<>>)
AttemptRect(i) ==
  [x |-> events[i].x, y |-> events[i].y, w |-> PopupSize.w, h |-> PopupSize.h]
AttemptCollides(i) == Overlap(AttemptRect(i), TargetBounds)

\* C15: onTick opens the popup at the first of its at most four attempts
\* whose clamped rectangle is clear of the target; it abandons only after
\* four attempts that all collide, and then no popup is open, the timer is
\* stopped and the call returns without an error.
C15_FirstFreeAttemptOpens ==
  Searched =>
    /\ Len(events) \in 1..4
    /\ \A i \in 1..Len(events) : events[i].collides <=> AttemptCollides(i)
    /\ \A i \in 1..(Len(events) - 1) : AttemptCollides(i)
    /\ IF AttemptCollides(Len(events))
       THEN /\ Len(events) = 4
            /\ ~m_tipWindow.ptr
            /\ screen = <<>>
            /\ RunningTimers = {}
            /\ pc = "returned"
       ELSE /\ m_tipWindow.ptr
            /\ PopupRect(m_tipWindow) = AttemptRect(Len(events))
            /\ screen = <<m_tipWindow>>

\* A search abandoned after four attempts against a target that leaves no
\* room on the display.
C15_Witness ==
  /\ Searched
  /\ Len(events) = 4
  /\ \A i \in 1..4 : events[i].collides
  /\ ~m_tipWindow.ptr

\* An alignment with both axes flipped: top<->bottom, left<->right.
Opposite(flag) ==
  CASE flag = "TOP" -> "BOTTOM"
    [] flag = "BOTTOM" -> "TOP"
    [] flag = "LEFT" -> "RIGHT"
    [] flag = "RIGHT" -> "LEFT"
Flipped(arrowAlign) == {Opposite(flag) : flag \in arrowAlign}

\* C18: starting from one of the eight alignments, the attempts of onTick
\* use, in order, the original alignment, the original with both axes
\* flipped, a rotated alignment and that one with both axes flipped, and
\* every attempt uses one of the eight valid alignments.
C18_AlignmentsTried ==
  (Searched /\ m_target.tipInfo.arrowAlign \in ValidAligns) =>
    /\ events[1].arrowAlign = m_target.tipInfo.arrowAlign
    /\ Len(events) >= 2 =>
         events[2].arrowAlign = Flipped(events[1].arrowAlign)
    /\ Len(events) >= 4 =>
         events[4].arrowAlign = Flipped(events[3].arrowAlign)
    /\ \A i \in 1..Len(events) : events[i].arrowAlign \in ValidAligns

(* ------------------------------------------------- properties: sessions *)

\* C16: in every reachable state the manager has at most one session: one
\* target, at most one Timer, and at most one popup open, which is the one
\* it owns; never two popups open nor two timers running.
C16_OneSession ==
  /\ Len(timers) <= 1
  /\ Cardinality(RunningTimers) <= 1
  /\ Len(screen) <= 1
  /\ screen = IF m_tipWindow.ptr THEN <<m_tipWindow>> ELSE <<>>
  /\ m_timer \in {NULL_TIMER} \cup (1..Len(timers))

\* A popup is open and the timer runs again: a widget was entered while
\* another one's popup was shown.
C16_Witness ==
  /\ Len(screen) = 1
  /\ RunningTimers # {}
  /\ ~PopupOfTarget(screen[1])

\* The manager has just processed this mouse-enter.
Entered(c) == c.op = "onProcessMessage" /\ c.type = "kMouseEnterMessage"

\* The positions of the recipients that have an entry in m_tips.
RegisteredAt(recipients) ==
  {i \in 1..Len(recipients) : m_tips[recipients[i]].present}

\* The last recipient that has an entry in m_tips.
LastRegistered(recipients) ==
  recipients[CHOOSE i \in RegisteredAt(recipients) :
               \A j \in RegisteredAt(recipients) : j <= i]

\* What a mouse-enter does, from the state before it to the state after.
MouseEnterEffect ==
  Entered(call') =>
    IF RegisteredAt(call'.recipients) # {}
    THEN /\ m_target' =
              [widget |-> LastRegistered(call'.recipients),
               tipInfo |-> m_tips[LastRegistered(call'.recipients)]]
         /\ m_timer' # NULL_TIMER
         /\ timers'[m_timer'].running
         /\ timers'[m_timer'].interval = kTooltipDelayMsecs
         /\ UNCHANGED <<m_tipWindow, screen, m_tips>>
    ELSE UNCHANGED <<m_target, m_timer, timers, m_tipWindow, screen, m_tips>>

\* C17: a mouse-enter with a recipient that has a registered TipInfo records
\* that widget and its TipInfo as the target and starts or restarts the
\* timer, and opens no popup; a mouse-enter with no registered recipient
\* changes neither the target, nor the timer, nor the popup.
C17_MouseEnterStartsTimer == [][MouseEnterEffect]_vars

\* A mouse-enter over a widget and its parent, both with a tooltip: the
\* parent, last in the list, is the target and the timer runs, no popup.
C17_Witness ==
  /\ Entered(call)
  /\ Len(call.recipients) = 2
  /\ RegisteredAt(call.recipients) = {1, 2}
  /\ m_target.widget = call.recipients[2]
  /\ RunningTimers = {m_timer}
  /\ screen = <<>>

(* ------------------------------------------------ properties: TipWindow *)

\* The TipWindow has just handled a key-down.
KeyDownHandled ==
  /\ call.op = "TipWindow::onProcessMessage"
  /\ call.msg.type = "kKeyDownMessage"

\* C19: at the TipWindow's own handler, a key-down whose scancode is below
\* kKeyFirstModifierScancode closes the popup, and a key-down with the
\* scancode of a modifier key leaves the popup, which was open, open.
C19_ModifierKeepsPopup ==
  KeyDownHandled =>
    (tip.open <=> call.msg.scancode >= kKeyFirstModifierScancode)

\* The last key before the modifiers has closed the popup.
C19_Witness ==
  /\ KeyDownHandled
  /\ call.msg.scancode = kKeyFirstModifierScancode - 1
  /\ ~tip.open

\* The preferred size has just been computed.
SizeAsked == call.op = "TipWindow::onPreferredSize"

\* The greatest number of a non-empty set.
Greatest(S) == CHOOSE m \in S : \A n \in S : n <= m

ChildWidths == {tip.children[i].w : i \in 1..Len(tip.children)}
ChildHeights == {tip.children[i].h : i \in 1..Len(tip.children)}

RECURSIVE SumOfHeights(_)
SumOfHeights(children) ==
  IF children = <<>> THEN 0
  ELSE Head(children).h + SumOfHeights(Tail(children))

TextWidth == tip.fit.w + tip.border_width.l + tip.border_width.r
TextHeight == tip.fit.h + tip.border_width.t + tip.border_width.b

\* The width of the claim: the wider of the text with its border and the
\* widest child with the border.
PreferredWidth ==
  IF tip.children = <<>> THEN TextWidth
  ELSE MAX(TextWidth,
           tip.border_width.l + Greatest(ChildWidths) + tip.border_width.r)

\* C20 as stated: the preferred width is PreferredWidth and the preferred
\* height is the text height, the top and bottom border and the sum of the
\* heights of all children.
C20_HeightAddsAllChildren ==
  SizeAsked =>
    /\ ret.w = PreferredWidth
    /\ ret.h = TextHeight + SumOfHeights(tip.children)

\* C20, amended: the preferred width is PreferredWidth and the preferred
\* height is the text height, the top and bottom border and the height of
\* the highest child; without children it is the text with its border.
C20_HeightAddsHighestChild ==
  SizeAsked =>
    /\ ret.w = PreferredWidth
    /\ ret.h = IF tip.children = <<>> THEN TextHeight
               ELSE TextHeight + Greatest(ChildHeights)

\* The size of a TipWindow with two children of different heights, one of
\* them wider than the text.
C20_Witness ==
  /\ SizeAsked
  /\ Len(tip.children) = 2
  /\ Cardinality(ChildHeights) = 2
  /\ Greatest(ChildWidths) > tip.fit.w
  /\ ret.w > TextWidth

(* --------------------------------------------------- properties: timer *)

\* A mouse-enter over a widget that has a tooltip.
EnteredRegistered(c) == Entered(c) /\ RegisteredAt(c.recipients) # {}

\* What a step does to the timer: a tick leaves it stopped, and a timer that
\* was not running runs only after a mouse-enter over a registered widget.
TimerEffect ==
  /\ call'.op = "onTick" => RunningTimers' = {}
  /\ (RunningTimers = {} /\ RunningTimers' # {}) => EnteredRegistered(call')

\* C21: after every tick the timer is stopped, whether the tick opened a
\* popup, abandoned the placement or found a popup open; it does not fire
\* again before a new mouse-enter over a registered widget starts it.
C21_TickStopsTimer == [][TimerEffect]_vars

\* A tick that found a popup open, of a timer that a mouse-enter had
\* started again: the popup stays and the timer is stopped.
C21_Witness ==
  /\ call.op = "onTick"
  /\ events = <<>>
  /\ m_tipWindow.ptr
  /\ RunningTimers = {}

(* ----------------------------------------------- properties: alignment *)

\* The alignment the session started the search with.
StartAlign == m_target.tipInfo.arrowAlign

\* The place an alignment asks for around the target, within the display.
PlaceOf(arrowAlign, window) ==
  ClampOrigin(SwitchOrigin(arrowAlign, TargetBounds, window.w, window.h,
                           window.x, window.y),
              window.w, window.h, env.display)

\* C22: whenever onTick opens a popup from one of the eight alignments, the
\* alignment recorded on the popup is the one of the attempt that gave the
\* popup its position, and it is one of the eight valid alignments.
C22_RecordedAlignIsUsed ==
  (Opened /\ StartAlign \in ValidAligns) =>
    /\ m_tipWindow.arrowAlign \in ValidAligns
    /\ m_tipWindow.arrowAlign = events[Len(events)].arrowAlign
    /\ PlaceOf(m_tipWindow.arrowAlign, m_tipWindow) =
         [x |-> m_tipWindow.x, y |-> m_tipWindow.y]

\* A popup opened at a later attempt, with another alignment than the one
\* the search started with.
C22_Witness ==
  /\ Opened
  /\ StartAlign \in ValidAligns
  /\ Len(events) >= 3
  /\ m_tipWindow.arrowAlign # StartAlign

(* ------------------------------------------------- properties: opening *)

\* What a step may do to the screen: a popup comes to the screen only in a
\* tick of a running timer, and a popup is on the screen only while a
\* registered widget was entered and nothing has dismissed the session
\* since.
OpeningEffect ==
  /\ Len(screen') > Len(screen) =>
       /\ call'.op = "onTick"
       /\ RunningTimers # {}
       /\ entered
  /\ screen' # <<>> => entered'

\* C23: a popup is opened only by a tick of the running timer; between a
\* dismissal and the next mouse-enter over a registered widget no popup is
\* opened, and every open popup follows a mouse-enter over a registered
\* widget with no dismissal in between.
C23_OpenedOnlyByTick == [][OpeningEffect]_vars

\* A popup that a tick has just opened, the widget entered and not
\* dismissed.
C23_Witness ==
  /\ call.op = "onTick"
  /\ events # <<>>
  /\ Len(screen) = 1
  /\ entered

(* ------------------------------------------------- properties: removal *)

\* C24: after removeTooltipFor(w) no popup for w is opened until
\* addTooltipFor(w, ...) is called again, also when the session of w was
\* Pending at the removal: a tick opens a popup only for a widget that has
\* its entry in m_tips.
C24_NoPopupAfterRemoval ==
  Opened => m_tips[m_target.widget].present

\* C26: in every reachable state, a timer that exists and is running has a
\* target: a widget and its TipInfo that a mouse-enter recorded, so that
\* onTick never runs without a target or without its Timer.
C26_RunningTimerHasTarget ==
  RunningTimers # {} =>
    /\ m_timer # NULL_TIMER
    /\ RunningTimers = {m_timer}
    /\ m_target.widget \in Widgets
    /\ m_target.tipInfo.present
    /\ entered

\* The timer runs over a widget whose tooltip was removed after the
\* mouse-enter: the target is still the one recorded.
C26_Witness ==
  /\ RunningTimers # {}
  /\ m_target.widget \in Widgets
  /\ ~m_tips[m_target.widget].present
  /\ m_target.tipInfo.present

(* --------------------------------------------------- properties: sides *)

\* The four single-side alignments, and the alignments of the attempts.
Sides == {JI_TOP, JI_BOTTOM, JI_LEFT, JI_RIGHT}
AlignsTried == {events[i].arrowAlign : i \in 1..Len(events)}

\* C25: from a single-side alignment the attempts of onTick use pairwise
\* distinct alignments, all of them sides, so that four attempts use the
\* four sides; from no alignment are more than four alignments tried.
C25_SidesAllTried ==
  Searched =>
    /\ Cardinality(AlignsTried) <= 4
    /\ StartAlign \in Sides =>
         /\ AlignsTried \subseteq Sides
         /\ Cardinality(AlignsTried) = Len(events)
         /\ Len(events) = 4 => AlignsTried = Sides

\* Four attempts from a side, the last of which found room: the popup has
\* the fourth side.
C25_Witness ==
  /\ Opened
  /\ StartAlign \in Sides
  /\ Len(events) = 4
  /\ m_tipWindow.arrowAlign = Flipped(events[3].arrowAlign)

====
